---- MODULE Spec2Model ----
(***************************************************************************)
(* A model of mcitSim.py: the Policy course graphs and getCourseOptions,   *)
(* Course seat counters, Student.chooseCourse / updateStudent and the      *)
(* Simulator's run_sim / run_sim_replicates loops.                         *)
(*                                                                         *)
(* Python values are represented as follows.  A course code is a string.   *)
(* A Python list is a sequence.  Python's None, where the code stores it   *)
(* in place of a list, is the one-element sequence NoneValue (no course    *)
(* is called "None", so it is never mistaken for a list of courses).  A    *)
(* dict is a function whose DOMAIN is its key set.  Student identifier i   *)
(* is stored at index i + 1 of simStudents (Python indexes from 0).        *)
(***************************************************************************)
EXTENDS Integers, Sequences, FiniteSets, TLC

\* ------------------------------------------------------------------------
\* Course codes
\* ------------------------------------------------------------------------

coreList == <<"591", "592", "593", "594", "595", "596">>

electList == <<"515", "547", "549", "550", "581", "542">>

Range(s) == {s[i] : i \in DOMAIN s}

CoreSet == Range(coreList)

ElectSet == Range(electList)

Courses == CoreSet \cup ElectSet

NoneValue == <<"None">>

\* ------------------------------------------------------------------------
\* Policy
\* ------------------------------------------------------------------------

listOfPolicies == <<"no-restrictions", "core-first">>

\* The insertion order of the keys of courseGraph (the same in both graphs).
GraphKeys == coreList \o electList

\* Electives left without prerequisites under core-first
coreCourseReqNone == [pre |-> NoneValue, co |-> NoneValue]

coreCourseReq == [pre |-> coreList, co |-> NoneValue]

NoRestrictionsGraph ==
    [c \in Courses |->
        CASE c = "591" -> [pre |-> NoneValue, co |-> NoneValue]
          [] c = "592" -> [pre |-> NoneValue, co |-> NoneValue]
          [] c = "593" -> [pre |-> <<"591">>, co |-> <<"591">>]
          [] c = "594" -> [pre |-> <<"591">>, co |-> NoneValue]
          [] c = "595" -> [pre |-> <<"593">>, co |-> NoneValue]
          [] c = "596" -> [pre |-> <<"592", "594">>, co |-> <<"594">>]
          [] c = "515" -> [pre |-> NoneValue, co |-> NoneValue]
          [] c = "547" -> [pre |-> <<"592", "594", "595">>, co |-> NoneValue]
          [] c = "549" -> [pre |-> <<"593", "595">>, co |-> NoneValue]
          [] c = "550" -> [pre |-> <<"591", "592", "596">>, co |-> <<"596">>]
          [] c = "581" -> [pre |-> <<"591", "592", "593", "594">>, co |-> NoneValue]
          [] c = "542" -> [pre |-> <<"592">>, co |-> NoneValue]]

CoreFirstGraph ==
    [c \in Courses |->
        CASE c = "591" -> [pre |-> NoneValue, co |-> NoneValue]
          [] c = "592" -> [pre |-> NoneValue, co |-> NoneValue]
          [] c = "593" -> [pre |-> <<"591">>, co |-> <<"591">>]
          [] c = "594" -> [pre |-> <<"591">>, co |-> NoneValue]
          [] c = "595" -> [pre |-> <<"593">>, co |-> NoneValue]
          [] c = "596" -> [pre |-> <<"592", "594">>, co |-> <<"594">>]
          [] OTHER -> coreCourseReq]

\* The two graphs stored under each other's name
GraphOfSwapped(name) ==
    IF name = listOfPolicies[1] THEN CoreFirstGraph ELSE NoRestrictionsGraph

\* The graph Policy.__init__ stores for a recognised policy name.
GraphOf(name) ==
    IF name = listOfPolicies[1] THEN NoRestrictionsGraph ELSE CoreFirstGraph

\* The prerequisite test left out
AllInForgotten(lst, coursesTaken) == TRUE

\* all(...) replaced by any(...)
AllInAny(lst, coursesTaken) == \E i \in DOMAIN lst : lst[i] \in coursesTaken

\* all(item in coursesTaken for item in lst)
AllIn(lst, coursesTaken) == \A i \in DOMAIN lst : lst[i] \in coursesTaken

\* passCoReq that never looks at the corequisites' own prerequisites
passCoReqAlways(courseGraph, coursesTaken, remainderCoReq) == TRUE

\* Policy.passCoReq
passCoReq(courseGraph, coursesTaken, remainderCoReq) ==
    \A co \in remainderCoReq :
        LET coPrereq == courseGraph[co].pre
        IN  coPrereq = NoneValue \/ AllIn(coPrereq, coursesTaken)

\* A dict assignment that stores nothing
DictSetNothing(d, k, v) == d

\* dict assignment d[k] = v
DictSet(d, k, v) == [x \in DOMAIN d \cup {k} |-> IF x = k THEN v ELSE d[x]]

\* del d[k]
DictDel(d, k) == [x \in DOMAIN d \ {k} |-> d[x]]

EmptyDict == [x \in {} |-> <<>>]

\* One iteration of the loop of getCourseOptions over the key `key`.  acc is
\* [err, map]: err is "none" until an exception escapes the loop.
OptionsStep(courseGraph, coursesTaken, acc, key) ==
    LET prerequisites == courseGraph[key].pre
        corequisites == courseGraph[key].co
        options == acc.map
    IN  IF acc.err # "none" THEN acc
        ELSE IF key \in coursesTaken THEN acc
        ELSE IF prerequisites = NoneValue THEN
            IF key \notin DOMAIN options
            THEN [acc EXCEPT !.map = DictSet(options, key, <<>>)] ELSE acc
        ELSE IF AllIn(prerequisites, coursesTaken) THEN
            IF key \notin DOMAIN options
            THEN [acc EXCEPT !.map = DictSet(options, key, <<>>)] ELSE acc
        ELSE IF corequisites # NoneValue THEN
            LET remainderPreReq == Range(prerequisites) \ coursesTaken
                remainderCoReq == Range(corequisites) \ coursesTaken
            IN  IF remainderPreReq # remainderCoReq THEN acc
                ELSE IF passCoReq(courseGraph, coursesTaken, remainderCoReq) THEN
                    \* list(remainderCoReq)[0]; IndexError on an empty set
                    IF remainderCoReq = {} THEN [acc EXCEPT !.err = "IndexError"]
                    ELSE
                    LET temp == CHOOSE x \in remainderCoReq : TRUE
                    IN  IF key \notin DOMAIN options
                        THEN [acc EXCEPT !.map = DictSet(options, temp, <<key>>)]
                        \* options[temp].append(key) evaluates to None
                        ELSE IF temp \notin DOMAIN options
                        THEN [acc EXCEPT !.err = "KeyError"]
                        ELSE IF options[temp] = NoneValue
                        THEN [acc EXCEPT !.err = "AttributeError"]
                        ELSE [acc EXCEPT !.map = DictSet(options, temp, NoneValue)]
                ELSE acc
        ELSE acc

RECURSIVE OptionsLoop(_, _, _, _)
OptionsLoop(courseGraph, coursesTaken, acc, i) ==
    IF i > Len(GraphKeys) THEN acc
    ELSE OptionsLoop(courseGraph, coursesTaken,
                     OptionsStep(courseGraph, coursesTaken, acc, GraphKeys[i]), i + 1)

\* getCourseOptions offering every course not yet taken, whatever it requires
getCourseOptionsNoPrerequisites(courseGraph, coursesTaken) ==
    [err |-> "none", map |-> [c \in DOMAIN courseGraph \ coursesTaken |-> <<>>]]

\* Policy.getCourseOptions: [err, map]
getCourseOptions(courseGraph, coursesTaken) ==
    OptionsLoop(courseGraph, coursesTaken, [err |-> "none", map |-> EmptyDict], 1)

\* ------------------------------------------------------------------------
\* Course
\* ------------------------------------------------------------------------

\* isCourseFull comparing with > in place of >=
isCourseFullOffByOne(numEnrolled_, capacity_, c) == numEnrolled_[c] > capacity_[c]

\* Course.isCourseFull
isCourseFull(numEnrolled_, capacity_, c) == numEnrolled_[c] >= capacity_[c]

\* Only the first of the returned courses gets enrollCourse()
enrollAllFirstOnly(numEnrolled_, lst, i) ==
    IF lst = <<>> THEN numEnrolled_
    ELSE [numEnrolled_ EXCEPT ![lst[1]] = @ + 1]

\* Course.enrollCourse, once for every course of the list `lst`
RECURSIVE enrollAll(_, _, _)
enrollAll(numEnrolled_, lst, i) ==
    IF i > Len(lst) THEN numEnrolled_
    ELSE enrollAll([numEnrolled_ EXCEPT ![lst[i]] = @ + 1], lst, i + 1)

\* resetEnrollment that leaves the counter as it is
resetEnrollmentKeep(n) == n

\* Course.resetEnrollment
resetEnrollment(n) == 0

\* ------------------------------------------------------------------------
\* Student
\* ------------------------------------------------------------------------

\* Student.__init__
NewStudent(studentId, startTime) ==
    [id |-> studentId,
     startTime |-> startTime,
     courseTaken |-> {},
     registerTrialsOfCourses |-> [x \in {} |-> 0],
     coursesNotAvailable |-> 0,
     semesterCount |-> 0,
     graduated |-> FALSE]

\* The graduation criterion with a threshold of 8 courses in place of 10
GraduationCriteriaEight(courseTaken) ==
    CoreSet \subseteq courseTaken /\ Cardinality(courseTaken) >= 8

\* The graduation criterion of updateStudent
GraduationCriteria(courseTaken) ==
    CoreSet \subseteq courseTaken /\ Cardinality(courseTaken) >= 10

\* updateStudent that assigns the new courses in place of adding them
updateStudentOverwrite(student, selected) ==
    LET taken == Range(selected)
    IN  [student EXCEPT
            !.semesterCount = @ + 1,
            !.courseTaken = taken,
            !.coursesNotAvailable = IF Len(selected) = 0 THEN @ + 1 ELSE @,
            !.graduated = IF CoreSet \subseteq taken /\ Cardinality(taken) >= 10
                          THEN TRUE ELSE @]

\* Student.updateStudent
updateStudent(student, selected) ==
    LET taken == student.courseTaken \cup Range(selected)
    IN  [student EXCEPT
            !.semesterCount = @ + 1,
            !.courseTaken = taken,
            !.coursesNotAvailable = IF Len(selected) = 0 THEN @ + 1 ELSE @,
            !.graduated = IF GraduationCriteria(taken) THEN TRUE ELSE @]

\* for coCurrentCourse in options[myCourse]: options[coCurrentCourse] = []
RECURSIVE unpackCoCurrent(_, _, _)
unpackCoCurrent(options, lst, i) ==
    IF i > Len(lst) THEN options
    ELSE unpackCoCurrent(DictSet(options, lst[i], <<>>), lst, i + 1)

\* A failed attempt counted twice
countTrialTwice(trials, myCourse) ==
    DictSet(trials, myCourse,
            IF myCourse \notin DOMAIN trials THEN 2 ELSE trials[myCourse] + 2)

\* registerTrialsOfCourses[myCourse] = 1 if absent else + 1
countTrial(trials, myCourse) ==
    DictSet(trials, myCourse,
            IF myCourse \notin DOMAIN trials THEN 1 ELSE trials[myCourse] + 1)

\* The loop of chooseCourse going on until three courses are selected
RECURSIVE chooseLoopThree(_, _, _, _, _)
chooseLoopThree(options, selected, trials, full, draws) ==
    IF Len(selected) < 3 /\ Cardinality(DOMAIN options) >= 1 THEN
        UNION {
            IF myCourse \notin full THEN
                IF options[myCourse] = NoneValue THEN
                    {[err |-> "TypeError", selected |-> selected,
                      trials |-> trials, draws |-> draws]}
                ELSE
                    LET opts == DictDel(unpackCoCurrent(options, options[myCourse], 1),
                                        myCourse)
                        sel == Append(selected, myCourse)
                    IN  {[err |-> "none", selected |-> sel, trials |-> trials,
                          draws |-> Append(draws, [c |-> myCourse, u |-> "stop"])]}
                        \cup
                        chooseLoopThree(opts, sel, trials, full,
                                   Append(draws, [c |-> myCourse, u |-> "go"]))
            ELSE
                chooseLoopThree(DictDel(options, myCourse), selected,
                           countTrial(trials, myCourse), full,
                           Append(draws, [c |-> myCourse, u |-> "full"]))
            : myCourse \in DOMAIN options }
    ELSE {[err |-> "none", selected |-> selected, trials |-> trials, draws |-> draws]}

\* The while loop of chooseCourse.  full is the set of courses whose
\* isCourseFull() is true (the catalog does not change during the call).
\* The result is the set of ways the loop can end, one for every sequence of
\* random outcomes: draws lists them, [c |-> the course random.choice gave,
\* u |-> "stop" or "go" for random.uniform(0, 1) < oneClassOnly or not, "full"
\* when the course was full and uniform was not called].
RECURSIVE chooseLoop(_, _, _, _, _)
chooseLoop(options, selected, trials, full, draws) ==
    IF Len(selected) < 2 /\ Cardinality(DOMAIN options) >= 1 THEN
        UNION {
            IF myCourse \notin full THEN
                IF options[myCourse] = NoneValue THEN
                    {[err |-> "TypeError", selected |-> selected,
                      trials |-> trials, draws |-> draws]}
                ELSE
                    LET opts == DictDel(unpackCoCurrent(options, options[myCourse], 1),
                                        myCourse)
                        sel == Append(selected, myCourse)
                    IN  {[err |-> "none", selected |-> sel, trials |-> trials,
                          draws |-> Append(draws, [c |-> myCourse, u |-> "stop"])]}
                        \cup
                        chooseLoop(opts, sel, trials, full,
                                   Append(draws, [c |-> myCourse, u |-> "go"]))
            ELSE
                chooseLoop(DictDel(options, myCourse), selected,
                           countTrial(trials, myCourse), full,
                           Append(draws, [c |-> myCourse, u |-> "full"]))
            : myCourse \in DOMAIN options }
    ELSE {[err |-> "none", selected |-> selected, trials |-> trials, draws |-> draws]}

\* Student.chooseCourse: the set of possible results [err, selected, student, draws]
chooseCourse(student, courseGraph_, numEnrolled_, capacity_) ==
    LET got == getCourseOptions(courseGraph_, student.courseTaken)
        full == {c \in DOMAIN numEnrolled_ : isCourseFull(numEnrolled_, capacity_, c)}
    IN  IF got.err # "none"
        THEN {[err |-> got.err, selected |-> <<>>, student |-> student, draws |-> <<>>]}
        ELSE {[err |-> r.err, selected |-> r.selected, draws |-> r.draws,
               student |->
                 IF r.err # "none"
                 THEN [student EXCEPT !.registerTrialsOfCourses = r.trials]
                 ELSE updateStudent(
                        [student EXCEPT !.registerTrialsOfCourses = r.trials],
                        r.selected)]
              : r \in chooseLoop(got.map, <<>>, student.registerTrialsOfCourses,
                                 full, <<>>)}

\* ------------------------------------------------------------------------
\* State
\* ------------------------------------------------------------------------

VARIABLES
    pc,                 \* where the program is: "start", "policy", "simulator",
                        \* "replicates", "run", "term", "done", "raised", "queried"
    error,              \* the exception that ended the program, or "none"
    policy,             \* Policy.policy, Unset while the object has no such attribute
    courseGraph,        \* Policy.courseGraph, NoGraph while the object has none
    capacity,           \* courseCatalog[c].capacity
    numEnrolled,        \* courseCatalog[c].numEnrolled
    simulatedStudents,  \* Simulator.simulatedStudents
    args,               \* the arguments of run_sim_replicates
    rep,                \* i of run_sim_replicates
    t,                  \* t of run_sim
    simStudents,        \* simStudents of run_sim
    studentIDs,         \* studentIDs of run_sim
    pos,                \* the index of the list iterator of `for studentID in studentIDs`
    courses,            \* courses of run_sim: what the last chooseCourse returned
    termStart,          \* history: simStudents and studentIDs when the term's pass
                        \* began, and idle, the identifiers on the roster that
                        \* registered nothing in the pass before
    script,             \* the choices the environment is committed to, see below
    query               \* a call of getCourseOptions on its own: its argument and result

vars == <<pc, error, policy, courseGraph, capacity, numEnrolled, simulatedStudents,
          args, rep, t, simStudents, studentIDs, pos, courses, termStart, script,
          query>>

\* ------------------------------------------------------------------------
\* The environment: arguments and random outcomes
\* ------------------------------------------------------------------------

\* Bounds of the arguments explored exhaustively.
MaxCapacity == 2

MaxRate == 2

MaxDuration == 2

MaxReplicates == 2

\* The number of times run_sim_replicates(a) runs the body of the loop over
\* studentIDs when nobody graduates: in term t of a replicate, rate * (t + 1).
Registrations(a) ==
    a.replicates * a.enrollmentRate * ((a.duration * (a.duration + 1)) \div 2)

MaxRegistrations == 3

PolicyNames == {"no-restrictions", "core-first", "bogus", ""}

\* Every outcome of random.shuffle(lst): the permutations of lst
Shuffles(lst) ==
    {p \in [1 .. Len(lst) -> Range(lst)] : Range(p) = Range(lst)}

\* script is a sequence of choices the environment makes next, one entry for
\* each step that takes one: a constructor's or call's arguments, a shuffle's
\* outcome, the draws of one chooseCourse.  A step whose entry is there takes
\* it; once the script is used up (or when it starts empty) every step takes
\* any choice within the bounds.
Scripted == script # <<>>

\* An argument: the script's, or any within the bounds
Choice(field, free) == IF Scripted THEN {Head(script)[field]} ELSE free

\* A random outcome: the script's if it is a possible one, or any possible one
Outcome(field, possible) ==
    IF Scripted THEN {x \in possible : x = Head(script)[field]} ELSE possible

Consume == script' = IF Scripted THEN Tail(script) ELSE script

RunArgs ==
    {a \in [replicates : 1 .. MaxReplicates, enrollmentRate : 1 .. MaxRate,
            duration : 1 .. MaxDuration] :
        Registrations(a) <= MaxRegistrations}

D(c, u) == [c |-> c, u |-> u]

Sh(p) == [shuffle |-> p]

Dr(d) == [draws |-> d]

\* A run long enough for a student to graduate: policy core-first, one student
\* a term.  Student 0 takes two courses in each of the terms 0 to 3.
CoreFirstTerms0To3(coreCapacity, electCapacity, duration) ==
    << [policy |-> "core-first"],
       [coreCapacity |-> coreCapacity, electCapacity |-> electCapacity],
       [run |-> [replicates |-> 1, enrollmentRate |-> 1, duration |-> duration]],
       \* term 0
       Sh(<<0>>),
       Dr(<<D("591", "go"), D("593", "stop")>>),
       \* term 1
       Sh(<<1, 0>>),
       Dr(<<D("591", "go"), D("593", "go")>>),
       Dr(<<D("592", "go"), D("594", "stop")>>),
       \* term 2
       Sh(<<0, 2, 1>>),
       Dr(<<D("595", "go"), D("596", "stop")>>),
       Dr(<<D("591", "go"), D("593", "stop")>>),
       Dr(<<D("592", "go"), D("594", "go")>>),
       \* term 3
       Sh(<<3, 0, 1, 2>>),
       Dr(<<D("591", "stop")>>),
       Dr(<<D("515", "go"), D("547", "stop")>>),
       Dr(<<D("595", "stop")>>),
       Dr(<<D("592", "stop")>>) >>

\* Term 4 in a given registration order, its draws free.
GraduationScript(order) == CoreFirstTerms0To3(2, 1, 5) \o <<Sh(order)>>

\* Student 0 graduates in term 4, second in the order; term 5 follows with
\* its draws free.
AfterGraduationScript ==
    CoreFirstTerms0To3(2, 2, 6) \o
    << Sh(<<1, 0, 2, 3, 4>>),
       Dr(<<D("596", "stop")>>),
       Dr(<<D("549", "go"), D("550", "go")>>),
       Dr(<<D("592", "stop")>>),
       Dr(<<D("591", "stop")>>),
       \* term 5
       Sh(<<5, 1, 2, 3, 4>>) >>

\* A run of three terms under no-restrictions with the default capacities,
\* one student a term; student 0 takes two courses in each of the terms 0 and
\* 1, and the draws of term 2 are free.
ThreeTermScript ==
    << [policy |-> "no-restrictions"],
       [coreCapacity |-> 350, electCapacity |-> 50],
       [run |-> [replicates |-> 1, enrollmentRate |-> 1, duration |-> 3]],
       \* term 0
       Sh(<<0>>),
       Dr(<<D("591", "go"), D("593", "stop")>>),
       \* term 1
       Sh(<<0, 1>>),
       Dr(<<D("592", "go"), D("594", "go")>>),
       Dr(<<D("515", "stop")>>),
       \* term 2
       Sh(<<2, 0, 1>>) >>

\* A run of five terms under core-first with one seat in every course, one
\* student a term.  Student 3 finds 591 and 592 full in term 3 and registers
\* nothing; in term 4 it comes second in the order, after student 0 who takes
\* its ninth and tenth course.  The other draws of term 4 are free.
ForcedLeaveScript ==
    << [policy |-> "core-first"],
       [coreCapacity |-> 1, electCapacity |-> 1],
       [run |-> [replicates |-> 1, enrollmentRate |-> 1, duration |-> 5]],
       \* term 0
       Sh(<<0>>),
       Dr(<<D("591", "go"), D("593", "stop")>>),
       \* term 1
       Sh(<<0, 1>>),
       Dr(<<D("592", "go"), D("594", "stop")>>),
       Dr(<<D("591", "go"), D("593", "stop")>>),
       \* term 2
       Sh(<<0, 1, 2>>),
       Dr(<<D("595", "go"), D("596", "stop")>>),
       Dr(<<D("594", "stop")>>),
       Dr(<<D("592", "stop")>>),
       \* term 3
       Sh(<<1, 2, 0, 3>>),
       Dr(<<D("592", "stop")>>),
       Dr(<<D("591", "stop")>>),
       Dr(<<D("515", "go"), D("547", "stop")>>),
       Dr(<<D("591", "full"), D("592", "full")>>),
       \* term 4
       Sh(<<0, 3, 1, 2, 4>>),
       Dr(<<D("549", "go"), D("550", "stop")>>) >>

Scripts ==
    {<<>>, GraduationScript(<<0, 4, 1, 2, 3>>), GraduationScript(<<3, 2, 0, 1, 4>>),
     GraduationScript(<<4, 3, 2, 1, 0>>), AfterGraduationScript, ThreeTermScript,
     ForcedLeaveScript}

\* ------------------------------------------------------------------------
\* Operations
\* ------------------------------------------------------------------------

NoCatalog == [c \in {} |-> 0]

NoQuery == [called |-> FALSE, coursesTaken |-> {}, err |-> "none", options |-> EmptyDict]

Unset == "<unset>"

\* No courseGraph attribute.  (Line 97 stores an empty dict that the same call
\* replaces by one of the two graphs, so no state has an empty graph.)
NoGraph == [c \in {} |-> [pre |-> NoneValue, co |-> NoneValue]]

NoTerm == [simStudents |-> <<>>, studentIDs |-> <<>>, idle |-> {}]

Init ==
    /\ pc = "start"
    /\ error = "none"
    /\ policy = Unset
    /\ courseGraph = NoGraph
    /\ capacity = NoCatalog
    /\ numEnrolled = NoCatalog
    /\ simulatedStudents = <<>>
    /\ args = [replicates |-> 0, enrollmentRate |-> 0, duration |-> 0]
    /\ rep = 0
    /\ t = 0
    /\ simStudents = <<>>
    /\ studentIDs = <<>>
    /\ pos = 0
    /\ courses = <<>>
    /\ termStart = NoTerm
    /\ script \in Scripts
    /\ query = NoQuery

\* Policy.__init__ storing the name before it tests it
PolicyInitAssignFirst ==
    /\ pc = "start"
    /\ \E name \in Choice("policy", PolicyNames) :
        /\ policy' = name
        /\ IF name \notin Range(listOfPolicies)
           THEN /\ pc' = "raised"
                /\ error' = "ValueError"
                /\ UNCHANGED courseGraph
           ELSE /\ pc' = "policy"
                /\ courseGraph' = GraphOf(name)
                /\ UNCHANGED error
    /\ Consume
    /\ UNCHANGED <<capacity, numEnrolled, simulatedStudents, args, rep, t,
                   simStudents, studentIDs, pos, courses, termStart, query>>

\* Policy.__init__
PolicyInit ==
    /\ pc = "start"
    /\ \E name \in Choice("policy", PolicyNames) :
        IF name \notin Range(listOfPolicies)
        THEN /\ pc' = "raised"
             /\ error' = "ValueError"
             /\ UNCHANGED <<policy, courseGraph>>
        ELSE /\ pc' = "policy"
             /\ policy' = name
             /\ courseGraph' = GraphOf(name)
             /\ UNCHANGED error
    /\ Consume
    /\ UNCHANGED <<capacity, numEnrolled, simulatedStudents, args, rep, t,
                   simStudents, studentIDs, pos, courses, termStart, query>>

\* Simulator.__init__
SimulatorInit ==
    /\ pc = "policy"
    /\ \E coreCapacity \in Choice("coreCapacity", 1 .. MaxCapacity),
          electCapacity \in Choice("electCapacity", 1 .. MaxCapacity) :
        capacity' = [c \in Courses |->
                        IF c \in CoreSet THEN coreCapacity ELSE electCapacity]
    /\ numEnrolled' = [c \in Courses |-> 0]
    /\ simulatedStudents' = <<>>
    /\ pc' = "simulator"
    /\ Consume
    /\ UNCHANGED <<error, policy, courseGraph, args, rep, t, simStudents,
                   studentIDs, pos, courses, termStart, query>>

\* Simulator.run_sim_replicates, up to its first call of run_sim
RunSimReplicates ==
    /\ pc = "simulator"
    /\ \E a \in Choice("run", RunArgs) : args' = a
    /\ rep' = 0
    /\ pc' = "replicates"
    /\ Consume
    /\ UNCHANGED <<error, policy, courseGraph, capacity, numEnrolled,
                   simulatedStudents, t, simStudents, studentIDs, pos, courses,
                   termStart, query>>

\* Simulator.run_sim, lines 60-61: a call from the loop of run_sim_replicates
RunSim ==
    /\ pc = "replicates"
    /\ rep < args.replicates
    /\ simStudents' = <<>>
    /\ studentIDs' = <<>>
    /\ t' = 0
    /\ pc' = "run"
    /\ UNCHANGED <<error, policy, courseGraph, capacity, numEnrolled,
                   simulatedStudents, args, rep, pos, courses, termStart, script,
                   query>>

\* [f(i) for i in range(lo, hi)]
RECURSIVE RangeList(_, _)
RangeList(lo, hi) == IF lo >= hi THEN <<>> ELSE <<lo>> \o RangeList(lo + 1, hi)

RECURSIVE NewStudents(_, _)
NewStudents(lo, hi) ==
    IF lo >= hi THEN <<>> ELSE <<NewStudent(lo, 0)>> \o NewStudents(lo + 1, hi)

\* Simulator.run_sim, lines 62-68: a term begins, its cohort is enrolled and the
\* registration order is shuffled
TermBegin ==
    /\ pc = "run"
    /\ t < args.duration
    /\ LET lo == t * args.enrollmentRate
           hi == args.enrollmentRate * (t + 1)
           students == simStudents \o NewStudents(lo, hi)
           ids == studentIDs \o RangeList(lo, hi)
       IN  /\ simStudents' = students
           /\ \E p \in Outcome("shuffle", Shuffles(ids)) :
                /\ studentIDs' = p
                /\ termStart' =
                    [simStudents |-> students, studentIDs |-> p,
                     idle |-> {id \in Range(studentIDs) :
                                simStudents[id + 1].coursesNotAvailable >
                                termStart.simStudents[id + 1].coursesNotAvailable}]
    /\ pos' = 0
    /\ pc' = "term"
    /\ Consume
    /\ UNCHANGED <<error, policy, courseGraph, capacity, numEnrolled,
                   simulatedStudents, args, rep, t, courses, query>>

\* A remove that leaves the list as it is
ListRemoveNothing(lst, x) == lst

\* list.remove(x): the list without the first occurrence of x
RECURSIVE ListRemove(_, _)
ListRemove(lst, x) ==
    IF lst = <<>> THEN <<>>
    ELSE IF Head(lst) = x THEN Tail(lst)
    ELSE <<Head(lst)>> \o ListRemove(Tail(lst), x)

\* The position the list iterator reads next after the body has run on the
\* element at index pos_
NextPos(pos_) == pos_ + 1

\* Simulator.run_sim, lines 70-77: the body of the loop over studentIDs, for the
\* element the list iterator yields
Register ==
    /\ pc = "term"
    /\ pos < Len(studentIDs)
    /\ LET studentID == studentIDs[pos + 1]
       IN  \E r \in chooseCourse(simStudents[studentID + 1], courseGraph,
                                 numEnrolled, capacity) :
            /\ Scripted => r.draws = Head(script).draws
            /\ simStudents' = [simStudents EXCEPT ![studentID + 1] = r.student]
            /\ IF r.err # "none"
               THEN /\ pc' = "raised"
                    /\ error' = r.err
                    /\ UNCHANGED <<numEnrolled, studentIDs, pos, courses>>
               ELSE /\ courses' = r.selected
                    /\ numEnrolled' = enrollAll(numEnrolled, r.selected, 1)
                    /\ studentIDs' = IF r.student.graduated
                                     THEN ListRemove(studentIDs, studentID)
                                     ELSE studentIDs
                    /\ pos' = NextPos(pos)
                    /\ UNCHANGED <<pc, error>>
    /\ Consume
    /\ UNCHANGED <<policy, courseGraph, capacity, simulatedStudents, args, rep, t,
                   termStart, query>>

\* Simulator.resetCoursesEnrollment
resetCoursesEnrollment(numEnrolled_) ==
    [c \in DOMAIN numEnrolled_ |-> resetEnrollment(numEnrolled_[c])]

\* Simulator.run_sim, line 79: the list iterator is exhausted, the term ends
TermEnd ==
    /\ pc = "term"
    /\ pos >= Len(studentIDs)
    /\ numEnrolled' = resetCoursesEnrollment(numEnrolled)
    /\ t' = t + 1
    /\ pc' = "run"
    /\ UNCHANGED <<error, policy, courseGraph, capacity, simulatedStudents, args,
                   rep, simStudents, studentIDs, pos, courses, termStart, script,
                   query>>

\* Simulator.run_sim returns (line 80) and run_sim_replicates stores the roster
RunSimReturn ==
    /\ pc = "run"
    /\ t >= args.duration
    /\ simulatedStudents' = Append(simulatedStudents, simStudents)
    /\ rep' = rep + 1
    /\ pc' = IF rep + 1 < args.replicates THEN "replicates" ELSE "done"
    /\ UNCHANGED <<error, policy, courseGraph, capacity, numEnrolled, args, t,
                   simStudents, studentIDs, pos, courses, termStart, script, query>>

Next ==
    \/ PolicyInit
    \/ SimulatorInit
    \/ RunSimReplicates
    \/ RunSim
    \/ TermBegin
    \/ Register
    \/ TermEnd
    \/ RunSimReturn

Spec == Init /\ [][Next]_vars

\* getCourseOptions called directly on a constructed Policy, with any set of
\* courses as coursesTaken
GetCourseOptions ==
    /\ pc = "policy"
    /\ \E coursesTaken \in SUBSET Courses :
        LET got == getCourseOptions(courseGraph, coursesTaken)
        IN  query' = [called |-> TRUE, coursesTaken |-> coursesTaken,
                      err |-> got.err, options |-> got.map]
    /\ pc' = "queried"
    /\ UNCHANGED <<error, policy, courseGraph, capacity, numEnrolled,
                   simulatedStudents, args, rep, t, simStudents, studentIDs, pos,
                   courses, termStart, script>>

InitOptions == Init /\ script = <<>>

NextOptions == PolicyInit \/ GetCourseOptions

SpecOptions == InitOptions /\ [][NextOptions]_vars

\* ------------------------------------------------------------------------
\* Properties
\* ------------------------------------------------------------------------

\* The list iterator is exhausted: the term's registration pass is over and
\* the enrollment counters are not yet reset.
PassOver == pc = "term" /\ pos >= Len(studentIDs)

\* The student with identifier id
Student(id) == simStudents[id + 1]

StudentAtTermStart(id) == termStart.simStudents[id + 1]

\* C1: in every state of a run, so after every student's registration and at
\* the end of every term's pass, no course has more students enrolled than
\* its capacity.
C1_EnrollmentWithinCapacity ==
    \A c \in DOMAIN numEnrolled : numEnrolled[c] <= capacity[c]

\* A pass is over with a course filled to its capacity that turned a student away.
C1_Witness ==
    /\ PassOver
    /\ \E c \in DOMAIN numEnrolled :
        /\ numEnrolled[c] = capacity[c]
        /\ \E i \in DOMAIN simStudents :
            /\ c \in DOMAIN simStudents[i].registerTrialsOfCourses
            /\ i \in DOMAIN termStart.simStudents
            /\ c \notin DOMAIN termStart.simStudents[i].registerTrialsOfCourses

\* C2: when a term's pass is over, every student who was on the active roster
\* when the pass began has attended exactly one more term than before it.
C2_EveryActiveStudentRegistersOnce ==
    PassOver =>
        \A id \in Range(termStart.studentIDs) :
            Student(id).semesterCount = StudentAtTermStart(id).semesterCount + 1

\* C3: a student is graduated exactly when the six core courses are among the
\* courses taken and at least 10 courses are taken, in the roster of the run
\* and in every returned roster; and a graduated student of a run stays
\* graduated.
C3_GraduatedIff ==
    /\ \A i \in DOMAIN simStudents :
        simStudents[i].graduated <=>
            /\ {"591", "592", "593", "594", "595", "596"}
                    \subseteq simStudents[i].courseTaken
            /\ Cardinality(simStudents[i].courseTaken) >= 10
    /\ \A k \in DOMAIN simulatedStudents : \A i \in DOMAIN simulatedStudents[k] :
        simulatedStudents[k][i].graduated <=>
            /\ {"591", "592", "593", "594", "595", "596"}
                    \subseteq simulatedStudents[k][i].courseTaken
            /\ Cardinality(simulatedStudents[k][i].courseTaken) >= 10

\* A step of one run_sim call (the call itself starts with a new, empty roster)
SameRun == pc # "replicates"

C3_GraduatedStays ==
    SameRun =>
        \A i \in DOMAIN simStudents :
            simStudents[i].graduated =>
                i \in DOMAIN simStudents' /\ simStudents'[i].graduated

\* C3: graduated is true exactly when the criterion holds, in every state, and
\* no step of a run turns a student's graduated from true to false.
C3_GraduatedIffAndStays == []C3_GraduatedIff /\ [][C3_GraduatedStays]_vars

\* A student has graduated and another student has registered after that.
C3_Witness ==
    /\ pc = "term"
    /\ \E i \in DOMAIN simStudents :
        /\ simStudents[i].graduated
        /\ simStudents[i].semesterCount = 5
        /\ pos >= 1
        /\ studentIDs[pos] # simStudents[i].id
        /\ Student(studentIDs[pos]).semesterCount
              > StudentAtTermStart(studentIDs[pos]).semesterCount

\* C4: no step of a run changes a student who has graduated (so chooseCourse,
\* which always adds 1 to semesterCount, is not called on that student); a
\* graduated student is not on the active roster; and a returned roster holds
\* every student admitted, graduated ones too, identifier i at index i.
C4_GraduatedUntouched ==
    SameRun =>
        \A i \in DOMAIN simStudents :
            simStudents[i].graduated =>
                i \in DOMAIN simStudents' /\ simStudents'[i] = simStudents[i]

C4_GraduatedOffRoster ==
    \A i \in DOMAIN studentIDs : ~ Student(studentIDs[i]).graduated

C4_ReturnedRosterComplete ==
    \A k \in DOMAIN simulatedStudents :
        /\ Len(simulatedStudents[k]) = args.enrollmentRate * args.duration
        /\ \A i \in DOMAIN simulatedStudents[k] : simulatedStudents[k][i].id = i - 1

\* C4: once a student has graduated no step of the run changes any of its
\* fields, it is not on the active roster, and it is in the returned roster.
C4_GraduatedNeverRegistersAgain ==
    /\ [][C4_GraduatedUntouched]_vars
    /\ []C4_GraduatedOffRoster
    /\ []C4_ReturnedRosterComplete

\* In the term after student 0 graduated, other students have registered and
\* student 0 still has the 5 terms it graduated with.
C4_Witness ==
    /\ pc = "term"
    /\ t = 5
    /\ pos >= 2
    /\ Student(0).graduated
    /\ Student(0).semesterCount = 5
    /\ Len(simStudents) = 6

\* C5 (as stated): under core-first, getCourseOptions(set()) has exactly the
\* six core courses as its keys.
C5_EmptySetGivesSixCoreKeys ==
    (query.called /\ policy = "core-first" /\ query.coursesTaken = {}) =>
        DOMAIN query.options = {"591", "592", "593", "594", "595", "596"}

\* C5 (amended): under core-first, getCourseOptions(set()) has exactly the keys
\* 591 and 592, 591 with the companion list [593] and 592 with an empty one; no
\* elective is a key or a companion.
C5_EmptySetGivesPrerequisiteFreeCore ==
    (query.called /\ policy = "core-first" /\ query.coursesTaken = {}) =>
        /\ query.err = "none"
        /\ DOMAIN query.options = {"591", "592"}
        /\ query.options["591"] = <<"593">>
        /\ query.options["592"] = <<>>
        /\ \A k \in DOMAIN query.options :
            /\ k \notin {"515", "547", "549", "550", "581", "542"}
            /\ \A j \in DOMAIN query.options[k] :
                query.options[k][j] \notin {"515", "547", "549", "550", "581", "542"}

C5_Witness ==
    query.called /\ policy = "core-first" /\ query.coursesTaken = {}

\* The companions of all keys of an options dict
Companions(options) ==
    UNION {Range(options[k]) : k \in DOMAIN options}

\* C6: under no-restrictions, getCourseOptions({'591'}) has 592, 593 and 594
\* among its keys, and 595 and 596 neither among its keys nor in a companion list.
C6_After591 ==
    (query.called /\ policy = "no-restrictions" /\ query.coursesTaken = {"591"}) =>
        /\ query.err = "none"
        /\ {"592", "593", "594"} \subseteq DOMAIN query.options
        /\ {"595", "596"} \cap DOMAIN query.options = {}
        /\ {"595", "596"} \cap Companions(query.options) = {}

C6_Witness ==
    query.called /\ policy = "no-restrictions" /\ query.coursesTaken = {"591"}

\* The prerequisites, and the corequisites, of c that are not in T
UntakenPre(c, T) ==
    IF courseGraph[c].pre = NoneValue THEN {} ELSE Range(courseGraph[c].pre) \ T

UntakenCo(c, T) ==
    IF courseGraph[c].co = NoneValue THEN {} ELSE Range(courseGraph[c].co) \ T

\* C7: under both policies getCourseOptions(set()) has the key 591 with 593 in
\* its companion list, and 593 is no key; and for every set T of courses taken,
\* a course c with untaken prerequisites is in the companion list of a key k
\* only if the untaken prerequisites of c are its untaken corequisites, k is
\* one of them, and every one of them has all its own prerequisites in T.
C7_CorequisiteJointRule ==
    query.called =>
        /\ query.coursesTaken = {} =>
            /\ "591" \in DOMAIN query.options
            /\ "593" \in Range(query.options["591"])
            /\ "593" \notin DOMAIN query.options
        /\ \A k \in DOMAIN query.options :
            /\ query.options[k] # NoneValue
            /\ \A c \in Range(query.options[k]) :
                LET T == query.coursesTaken
                IN  UntakenPre(c, T) # {} =>
                        /\ UntakenPre(c, T) = UntakenCo(c, T)
                        /\ k \in UntakenCo(c, T)
                        /\ \A co \in UntakenCo(c, T) : UntakenPre(co, T) = {}

\* A companion other than 593: with 591 and 592 taken, 594 unlocks 596.
C7_Witness ==
    /\ query.called
    /\ query.coursesTaken = {"591", "592"}
    /\ policy = "no-restrictions"
    /\ "594" \in DOMAIN query.options
    /\ query.options["594"] = <<"596">>

\* C8: during a term every student's courseTaken includes what it was when
\* the pass began and has at most 2 courses more; a step of a run never takes
\* a course away from a student; and what chooseCourse returns is at most two
\* courses, all different, none taken before, all taken after.
C8_TermAddsAtMostTwo ==
    pc = "term" =>
        \A i \in DOMAIN termStart.simStudents :
            /\ termStart.simStudents[i].courseTaken \subseteq simStudents[i].courseTaken
            /\ Cardinality(simStudents[i].courseTaken
                            \ termStart.simStudents[i].courseTaken) <= 2

C8_CourseTakenGrows ==
    SameRun =>
        \A i \in DOMAIN simStudents :
            /\ i \in DOMAIN simStudents'
            /\ simStudents[i].courseTaken \subseteq simStudents'[i].courseTaken

\* The step is the body of the loop over studentIDs, run to its end
Registered == pc = "term" /\ pc' = "term" /\ pos' = pos + 1

C8_SelectedAreNew ==
    Registered =>
        LET i == studentIDs[pos + 1] + 1
        IN  /\ Len(courses') <= 2
            /\ Cardinality(Range(courses')) = Len(courses')
            /\ Range(courses') \cap simStudents[i].courseTaken = {}
            /\ simStudents'[i].courseTaken
                  = simStudents[i].courseTaken \cup Range(courses')

\* C8: in every term a student's courseTaken keeps what it held and gains at
\* most 2 courses, which are the distinct, untaken courses chooseCourse selected.
C8_AtMostTwoNewCoursesPerTerm ==
    /\ []C8_TermAddsAtMostTwo
    /\ [][C8_CourseTakenGrows]_vars
    /\ [][C8_SelectedAreNew]_vars

\* A student with courses from an earlier term has just taken two more.
C8_Witness ==
    /\ pc = "term"
    /\ pos >= 1
    /\ Len(courses) = 2
    /\ \E i \in DOMAIN termStart.simStudents :
        /\ termStart.simStudents[i].courseTaken # {}
        /\ Range(courses) \cap termStart.simStudents[i].courseTaken = {}
        /\ simStudents[i].courseTaken
              = termStart.simStudents[i].courseTaken \cup Range(courses)

\* C9: when Policy.__init__ has raised ValueError the object has no policy
\* name and no course graph, and no Simulator was built and no simulation step
\* ran; and a Policy that was constructed has one of the two names of
\* listOfPolicies and that name's graph.
C9_BadPolicyNameRaises ==
    /\ error = "ValueError" =>
        /\ pc = "raised"
        /\ policy = Unset
        /\ courseGraph = NoGraph
        /\ capacity = NoCatalog
        /\ numEnrolled = NoCatalog
        /\ simStudents = <<>>
        /\ studentIDs = <<>>
        /\ simulatedStudents = <<>>
    /\ pc \notin {"start", "raised"} =>
        /\ policy \in {"no-restrictions", "core-first"}
        /\ DOMAIN courseGraph = Courses
    /\ policy \in {Unset, "no-restrictions", "core-first"}

C9_Witness == pc = "raised" /\ error = "ValueError"

\* C10: when a term's registration pass begins (the shuffle is done, nobody has
\* registered yet), in every replicate, every course's numEnrolled is 0.
C10_EnrollmentZeroAtTermStart ==
    (pc = "term" /\ pos = 0) =>
        \A c \in DOMAIN numEnrolled : numEnrolled[c] = 0

\* The first term of the second replicate begins, and in the first replicate
\* a student had enrolled in a course.
C10_Witness ==
    /\ pc = "term"
    /\ pos = 0
    /\ rep = 1
    /\ Len(simulatedStudents) = 1
    /\ \E i \in DOMAIN simulatedStudents[1] : simulatedStudents[1][i].courseTaken # {}

\* C11: no student has taken more than twice as many courses as terms it
\* attended, so a graduated student has attended at least 5 terms; and in a run
\* of at most 3 terms no student is graduated, in the roster of the run and in
\* the roster it returns.
C11_NoGraduationBeforeFiveTerms ==
    /\ \A i \in DOMAIN simStudents :
        /\ Cardinality(simStudents[i].courseTaken) <= 2 * simStudents[i].semesterCount
        /\ simStudents[i].graduated => simStudents[i].semesterCount >= 5
        /\ args.duration <= 3 => ~ simStudents[i].graduated
    /\ \A k \in DOMAIN simulatedStudents : \A i \in DOMAIN simulatedStudents[k] :
        /\ Cardinality(simulatedStudents[k][i].courseTaken)
              <= 2 * simulatedStudents[k][i].semesterCount
        /\ args.duration <= 3 => ~ simulatedStudents[k][i].graduated

\* A run of 3 terms has returned its roster, in which a student took two
\* courses in each of its three terms.
C11_Witness ==
    /\ pc = "done"
    /\ args.duration = 3
    /\ Len(simulatedStudents) = 1
    /\ \E i \in DOMAIN simulatedStudents[1] :
        /\ simulatedStudents[1][i].semesterCount = 3
        /\ Cardinality(simulatedStudents[1][i].courseTaken) = 6
        /\ ~ simulatedStudents[1][i].graduated

\* The prerequisites, and the corequisites, the course graph gives for c
PreOf(c) == IF courseGraph[c].pre = NoneValue THEN {} ELSE Range(courseGraph[c].pre)

CoOf(c) == IF courseGraph[c].co = NoneValue THEN {} ELSE Range(courseGraph[c].co)

C13_TakenIsPrerequisiteClosed ==
    \A i \in DOMAIN simStudents :
        \A c \in simStudents[i].courseTaken : PreOf(c) \subseteq simStudents[i].courseTaken

C13_SelectedHavePrerequisites ==
    Registered =>
        LET old == simStudents[studentIDs[pos + 1] + 1].courseTaken
        IN  \A j \in DOMAIN courses' :
                \A p \in PreOf(courses'[j]) :
                    /\ \/ p \in old
                       \/ /\ p \in CoOf(courses'[j])
                          /\ \E h \in 1 .. (j - 1) : courses'[h] = p
                    /\ p \notin CoOf(courses'[j]) => p \notin Range(courses')

\* C13: every prerequisite of a course a student registers was taken by that
\* student in an earlier term, or is a corequisite of the course that the
\* student selected earlier in the same call; a prerequisite that is no
\* corequisite is not among the courses of the same term; so every student's
\* courseTaken holds the prerequisites of all its courses.
C13_PrerequisiteSafety ==
    /\ [][C13_SelectedHavePrerequisites]_vars
    /\ []C13_TakenIsPrerequisiteClosed

\* A student who had 591 and 592 has just registered 594 and then 596, whose
\* prerequisite and corequisite 594 is.
C13_Witness ==
    /\ pc = "term"
    /\ pos >= 1
    /\ courses = <<"594", "596">>
    /\ \E i \in DOMAIN termStart.simStudents :
        /\ termStart.simStudents[i].courseTaken = {"591", "592"}
        /\ simStudents[i].courseTaken = {"591", "592", "594", "596"}

C14_ElectiveHoldersHaveCore ==
    policy = "core-first" =>
        \A i \in DOMAIN simStudents :
            simStudents[i].courseTaken
                    \cap {"515", "547", "549", "550", "581", "542"} # {}
                => {"591", "592", "593", "594", "595", "596"}
                        \subseteq simStudents[i].courseTaken

C14_ElectiveOnlyAfterCore ==
    (Registered /\ policy = "core-first") =>
        LET old == simStudents[studentIDs[pos + 1] + 1].courseTaken
        IN  Range(courses') \cap {"515", "547", "549", "550", "581", "542"} # {}
                => {"591", "592", "593", "594", "595", "596"} \subseteq old

\* C14: under core-first a student who registers an elective had all six core
\* courses before that call, so no student holds an elective while a core
\* course is missing.
C14_CoreFirst ==
    /\ [][C14_ElectiveOnlyAfterCore]_vars
    /\ []C14_ElectiveHoldersHaveCore

\* Under core-first a student who had the six core courses has just
\* registered two electives.
C14_Witness ==
    /\ policy = "core-first"
    /\ pc = "term"
    /\ pos >= 1
    /\ Len(courses) = 2
    /\ Range(courses) \subseteq ElectSet
    /\ \E i \in DOMAIN termStart.simStudents :
        /\ termStart.simStudents[i].courseTaken = CoreSet
        /\ simStudents[i].courseTaken = CoreSet \cup Range(courses)

\* C15: for both policies and every set T of courses taken, getCourseOptions
\* raises nothing, maps every key to a list, has as keys exactly the courses
\* outside T whose prerequisites are absent or all in T, and has no course of T
\* as a key or in a companion list.
C15_KeysAreTheSelectableCourses ==
    query.called =>
        LET T == query.coursesTaken
        IN  /\ query.err = "none"
            /\ \A k \in DOMAIN query.options : query.options[k] # NoneValue
            /\ DOMAIN query.options = {c \in Courses \ T : PreOf(c) \subseteq T}
            /\ T \cap (DOMAIN query.options \cup Companions(query.options)) = {}

\* Under core-first, with the six core courses and two electives taken, the
\* four remaining electives are the keys.
C15_Witness ==
    /\ query.called
    /\ policy = "core-first"
    /\ query.coursesTaken = CoreSet \cup {"515", "547"}
    /\ DOMAIN query.options = ElectSet \ {"515", "547"}

\* The failed attempts a student has recorded for course c
Trials(student, c) ==
    IF c \in DOMAIN student.registerTrialsOfCourses
    THEN student.registerTrialsOfCourses[c] ELSE 0

\* What one call of chooseCourse does about full courses: a counter moves by
\* 0 or 1; where it moved the course was full before the call, is not among
\* the selected courses, and neither are the companions it would have
\* unlocked; enrollment moves by one for each selected course and not at all
\* otherwise; and a call that selects nothing found every key full.
C16_FailedDraw ==
    Registered =>
        LET id == studentIDs[pos + 1]
            old == simStudents[id + 1]
            new == simStudents'[id + 1]
            options == getCourseOptions(courseGraph, old.courseTaken).map
        IN  /\ \A c \in Courses :
                /\ Trials(new, c) - Trials(old, c) \in {0, 1}
                /\ Trials(new, c) = Trials(old, c) + 1 =>
                    /\ numEnrolled[c] >= capacity[c]
                    /\ c \notin Range(courses')
                    /\ c \notin new.courseTaken
                    /\ c \in DOMAIN options =>
                            Range(options[c]) \cap Range(courses') = {}
                /\ numEnrolled'[c] =
                        numEnrolled[c] + (IF c \in Range(courses') THEN 1 ELSE 0)
            /\ courses' = <<>> =>
                \A k \in DOMAIN options :
                    /\ numEnrolled[k] >= capacity[k]
                    /\ Trials(new, k) = Trials(old, k) + 1

C16_TrialsAtMostOnePerTerm ==
    \A i \in DOMAIN simStudents :
        \A c \in Courses :
            Trials(simStudents[i], c) <= simStudents[i].semesterCount

C16_NoExceptionFromRegistration ==
    error \in {"none", "ValueError"} /\ (error = "ValueError" => rep = 0 /\ t = 0)

\* C16: a drawn course that is full leaves the options with its companions,
\* adds exactly 1 to the student's counter of that course, is not taken that
\* term, changes no enrollment and raises nothing; so a counter is at most the
\* number of terms attended.
C16_Contention ==
    /\ [][C16_FailedDraw]_vars
    /\ []C16_TrialsAtMostOnePerTerm
    /\ []C16_NoExceptionFromRegistration

\* A student turned away from a full course has registered another course in
\* the same call.
C16_Witness ==
    /\ pc = "term"
    /\ pos >= 1
    /\ courses # <<>>
    /\ \E i \in DOMAIN termStart.simStudents :
        /\ simStudents[i].semesterCount = termStart.simStudents[i].semesterCount + 1
        /\ simStudents[i].courseTaken
                = termStart.simStudents[i].courseTaken \cup Range(courses)
        /\ \E c \in Courses :
            /\ Trials(simStudents[i], c) = Trials(termStart.simStudents[i], c) + 1
            /\ numEnrolled[c] = capacity[c]
            /\ c \notin simStudents[i].courseTaken

\* coursesNotAvailable moves only in a call of chooseCourse, by 1 when the
\* call selected nothing and by 0 otherwise.
C17_CounterCountsEmptyTerms ==
    /\ Registered =>
        LET id == studentIDs[pos + 1]
        IN  \A i \in DOMAIN simStudents :
                simStudents'[i].coursesNotAvailable =
                    simStudents[i].coursesNotAvailable
                        + (IF i = id + 1 /\ courses' = <<>> THEN 1 ELSE 0)
    /\ (~Registered /\ pc = "term" /\ pc' # "raised") => simStudents' = simStudents

C17_CounterAtMostTerms ==
    \A i \in DOMAIN simStudents :
        /\ simStudents[i].coursesNotAvailable <= simStudents[i].semesterCount
        /\ i > Len(termStart.simStudents) /\ pc \in {"run", "term"} /\ t = 0 =>
                simStudents[i].coursesNotAvailable = 0

\* A student that registered nothing in a term is on the roster of the next.
C17_IdleStaysOnRoster ==
    pc = "term" => termStart.idle \subseteq Range(termStart.studentIDs)

C17_IdleRegistersNextTerm ==
    PassOver =>
        \A id \in termStart.idle :
            Student(id).semesterCount = StudentAtTermStart(id).semesterCount + 1

\* The counter and the roster behave as described.
C17_CounterAndRoster ==
    /\ [][C17_CounterCountsEmptyTerms]_vars
    /\ []C17_CounterAtMostTerms
    /\ []C17_IdleStaysOnRoster

\* C17: coursesNotAvailable counts the attended terms in which the student
\* registered nothing, so it is at most semesterCount; and a student that
\* registered nothing in a term stays on the roster and registers again in
\* the next term.
C17_ForcedLeave ==
    /\ C17_CounterAndRoster
    /\ []C17_IdleRegistersNextTerm

C18_StartTimeIsAdmissionTerm ==
    pc \in {"run", "term"} =>
        \A i \in DOMAIN simStudents :
            simStudents[i].startTime = (i - 1) \div args.enrollmentRate

\* The roster holds the student of identifier i at index i, and in term t the
\* cohorts of the terms up to t.
C18_RosterIndexedByIdentifier ==
    /\ pc \in {"run", "term"} =>
        /\ \A i \in DOMAIN simStudents : simStudents[i].id = i - 1
        /\ Len(simStudents) =
                args.enrollmentRate * (IF pc = "term" THEN t + 1 ELSE t)
    /\ \A r \in DOMAIN simulatedStudents :
        /\ Len(simulatedStudents[r]) = args.enrollmentRate * args.duration
        /\ \A i \in DOMAIN simulatedStudents[r] : simulatedStudents[r][i].id = i - 1

\* C18: a student admitted in term t has startTime t, and run_sim returns
\* rate x duration students, the student of identifier i at index i, the
\* identifiers rate*t .. rate*(t+1)-1 being the cohort of term t.
C18_CohortsAndStartTime ==
    /\ C18_RosterIndexedByIdentifier
    /\ C18_StartTimeIsAdmissionTerm

C19_NotGraduatedHasOptions ==
    (pc \in {"run", "term", "replicates", "done"}) =>
        \A i \in DOMAIN simStudents :
            ~simStudents[i].graduated =>
                LET got == getCourseOptions(courseGraph, simStudents[i].courseTaken)
                IN  got.err = "none" /\ DOMAIN got.map # {}

\* Whatever a student that is not graduated can have taken, the graph just
\* constructed offers a course: stated right after Policy.__init__, for every
\* set of courses that is not the whole catalog.
C19_EveryOtherSetHasOptions ==
    pc = "policy" =>
        \A T \in SUBSET Courses :
            T # Courses =>
                LET got == getCourseOptions(courseGraph, T)
                IN  got.err = "none" /\ DOMAIN got.map # {}

C19_EmptyTermOnlyWhenAllFull ==
    (Registered /\ courses' = <<>>) =>
        LET old == simStudents[studentIDs[pos + 1] + 1]
            keys == DOMAIN getCourseOptions(courseGraph, old.courseTaken).map
        IN  /\ keys # {}
            /\ \A k \in keys : numEnrolled[k] >= capacity[k]

\* C19: under either policy every student that is not graduated has at least
\* one directly selectable course, so a term without registration happens
\* only when every course the student drew was full.
C19_LeaveOnlyWhenFull ==
    /\ []C19_NotGraduatedHasOptions
    /\ []C19_EveryOtherSetHasOptions
    /\ [][C19_EmptyTermOnlyWhenAllFull]_vars

\* Under no-restrictions a student has just registered nothing: the courses
\* it could select were full.
C19_Witness ==
    /\ policy = "no-restrictions"
    /\ pc = "term"
    /\ pos >= 1
    /\ courses = <<>>
    /\ \E i \in DOMAIN termStart.simStudents :
        /\ simStudents[i].coursesNotAvailable
                = termStart.simStudents[i].coursesNotAvailable + 1
        /\ \A k \in DOMAIN getCourseOptions(courseGraph,
                                            simStudents[i].courseTaken).map :
                numEnrolled[k] = capacity[k]

\* The students that added course c to courseTaken in the term under way
AddedThisTerm(c) ==
    {i \in DOMAIN simStudents :
        /\ c \in simStudents[i].courseTaken
        /\ i \in DOMAIN termStart.simStudents =>
                c \notin termStart.simStudents[i].courseTaken}

\* C20: when a term's pass is over and the reset has not happened, and at
\* every point of the pass before, the number enrolled in each course is the
\* number of students that added the course to courseTaken in this term.
C20_SeatConservation ==
    pc = "term" =>
        /\ DOMAIN simStudents = DOMAIN termStart.simStudents
        /\ \A c \in Courses : numEnrolled[c] = Cardinality(AddedThisTerm(c))

\* A pass is over in which two students of one cohort took the same two
\* courses and a third student was turned away from one of them.
C20_Witness ==
    /\ PassOver
    /\ \E c, d \in Courses :
        /\ c # d
        /\ numEnrolled[c] = 2
        /\ numEnrolled[d] = 2
        /\ Cardinality(AddedThisTerm(c) \cap AddedThisTerm(d)) = 2
        /\ \E i \in DOMAIN simStudents :
            /\ i \notin AddedThisTerm(c)
            /\ Trials(simStudents[i], c) = Trials(termStart.simStudents[i], c) + 1

====
